---- MODULE Spec2Model ----
(***************************************************************************)
(* A model of the X-ray spectroscopy agent backend:                        *)
(*   - backend/pinecone_rag.py : PineconeRAG (construction, upsert_docs    *)
(*     with dedup, retrieve) and the process-wide handle get_rag_store;    *)
(*   - backend/main.py         : the chat_message handler's retrieval      *)
(*     step;                                                               *)
(*   - backend/spectroscopy.py : detect_peaks.                             *)
(*                                                                         *)
(* Three specifications share the variables:                               *)
(*   Spec      the store driven by whole, non-overlapping calls;           *)
(*   SpecInit  several threads inside get_rag_store, one step per          *)
(*             statement that reads or writes shared state;                *)
(*   SpecPeaks detect_peaks applied to bounded inputs.                     *)
(*                                                                         *)
(* Numbers.  Similarity scores are cosine similarities in units of 1/10000 *)
(* (0.99 is 9900).  Embeddings are integer vectors of one common length    *)
(* (the embedding provider returns length-normalised vectors), so that the *)
(* cosine of two of them is their dot product over the common squared      *)
(* norm.  Intensities, energies and the threshold of detect_peaks are      *)
(* integers standing for floats on a fixed grid; only ==, >= and max are   *)
(* applied to them.                                                        *)
(***************************************************************************)
EXTENDS Integers, Sequences, FiniteSets, TLC

VARIABLES
  apiKey,    \* PINECONE_API_KEY is set (read once, at import)
  rag,       \* the global _rag: [set |-> FALSE] is None, else the object
  index,     \* the Pinecone index: namespace -> set of [id, text] vectors
  nextId,    \* source of fresh uuid4 values
  clean,     \* history: namespace -> no batch so far held two near-duplicates
  last,      \* the last call made, its arguments and its outcome
  threads,   \* SpecInit: thread -> frame of its get_rag_store call
  made,      \* SpecInit: [stores, bootstraps] constructed / started so far
  peakIn,    \* SpecPeaks: the arguments of detect_peaks
  peakOut    \* SpecPeaks: [done, peaks] the call's result

vars == <<apiKey, rag, index, nextId, clean, last, threads, made, peakIn, peakOut>>

storeVars == <<apiKey, rag, index, nextId, clean, last>>
initVars  == <<threads, made>>
peakVars  == <<peakIn, peakOut>>

----------------------------------------------------------------------------
(* Bounds of the model *)

MaxBatch == 2      \* longest batch a direct upsert_docs call is given
NumThreads == 2    \* threads calling get_rag_store at once
MaxN == 5          \* longest spectrum
MaxVal == 2        \* largest intensity level
MaxWindow == 2     \* largest half-window

(* Program constants *)

DedupThreshold == 9900   \* top_match.score > 0.99
DefaultK == 3            \* retrieve(..., k=3)

Namespaces == {"default", "other"}
DefaultNamespace == "default"

----------------------------------------------------------------------------
(* The embedding provider and the cosine metric of the index *)

Texts == 1..5

\* embed_text: one vector per text, deterministic.  All vectors have squared
\* norm 40000.  Text 2 is a near-duplicate of text 1 (0.995), text 3 is at
\* exactly 0.99 from text 1, texts 4 and 5 are far from everything else.
Embed(t) ==
  CASE t = 1 -> <<200, 0, 0, 0, 0>>
    [] t = 2 -> <<199, 19, 6, 1, 1>>
    [] t = 3 -> <<198, 28, 2, 2, 2>>
    [] t = 4 -> <<0, 0, 200, 0, 0>>
    [] OTHER -> <<0, 0, 0, 200, 0>>

RECURSIVE DotFrom(_, _, _)
DotFrom(a, b, i) ==
  IF i > Len(a) THEN 0 ELSE a[i] * b[i] + DotFrom(a, b, i + 1)

Dot(a, b) == DotFrom(a, b, 1)

\* metric="cosine": the score of two length-normalised vectors, in 1/10000
Cosine(a, b) == (Dot(a, b) * 10000) \div Dot(a, a)

Sim(t, u) == Cosine(Embed(t), Embed(u))

\* the four toy documents of get_rag_store
ToyDocs == <<1, 3, 4, 5>>

----------------------------------------------------------------------------
(* The index: query and upsert *)

\* the vectors a query with namespace=ns searches
NamespaceDocs_All(idx, ns) == UNION {idx[m] : m \in Namespaces}

NamespaceDocs(idx, ns) == idx[ns]

\* the matches of a query before ranking: id, score and metadata of every
\* vector searched
Scored(docs, vec) ==
  {[id |-> d.id, score |-> Cosine(vec, Embed(d.text)), text |-> d.text] :
     d \in docs}

\* m is ranked before n: higher score first; among equal scores the order is
\* fixed by id
Ranked(m, n) ==
  m.score > n.score \/ (m.score = n.score /\ m.id <= n.id)

RECURSIVE TopK(_, _)
TopK(ms, k) ==
  IF k <= 0 \/ ms = {} THEN <<>>
  ELSE LET best == CHOOSE m \in ms : \A n \in ms : Ranked(m, n)
       IN  <<best>> \o TopK(ms \ {best}, k - 1)

\* index.query(namespace, vector, top_k, include_metadata=True).matches
Query(idx, ns, vec, k) == TopK(Scored(NamespaceDocs(idx, ns), vec), k)

----------------------------------------------------------------------------
(* PineconeRAG.upsert_docs *)

\* the index contents a dedup query of the batch sees: the committed index;
\* the vectors staged so far by the same batch are not in it
QueryView_WithStaged(idx, ns, acc) ==
  [idx EXCEPT ![ns] = @ \cup {[id |-> acc[j].id, text |-> acc[j].text] :
                               j \in 1..Len(acc)}]

QueryView(idx, ns, acc) == idx

\* "if existing and existing.matches: ... if top_match.score > 0.99"
IsDuplicate_Never(existing) == FALSE

IsDuplicate_AtOrAbove(existing) ==
  existing # <<>> /\ existing[1].score >= DedupThreshold

IsDuplicate(existing) ==
  existing # <<>> /\ existing[1].score > DedupThreshold

\* "except Exception: print(...); continue": the document is not staged
OnQueryFailure_Staged(acc, pos, text, nid) ==
  Append(acc, [pos |-> pos, id |-> nid + Len(acc), text |-> text])

OnQueryFailure(acc, pos, text, nid) == acc

\* the loop over zip(docs, embeddings); acc is vectors_to_insert, each entry
\* with the position of its document in the batch
RECURSIVE DedupStage(_, _, _, _, _, _, _)
DedupStage(docs, i, idx, ns, failed, nid, acc) ==
  IF i > Len(docs) THEN acc
  ELSE IF i \in failed
    THEN DedupStage(docs, i + 1, idx, ns, failed, nid,
                    OnQueryFailure(acc, i, docs[i], nid))
  ELSE LET existing == Query(QueryView(idx, ns, acc), ns, Embed(docs[i]), 1)
       IN  IF IsDuplicate(existing)
             THEN DedupStage(docs, i + 1, idx, ns, failed, nid, acc)
             ELSE DedupStage(docs, i + 1, idx, ns, failed, nid,
                    Append(acc, [pos |-> i, id |-> nid + Len(acc),
                                 text |-> docs[i]]))

\* "if vectors_to_insert: self.index.upsert(vectors, namespace)"
InsertVectors(idx, ns, acc) ==
  IF acc = <<>> THEN idx
  ELSE [idx EXCEPT ![ns] = @ \cup {[id |-> acc[j].id, text |-> acc[j].text] :
                                    j \in 1..Len(acc)}]

\* upsert_docs(docs, namespace) on the object store; failed is the set of
\* positions whose dedup query raises.  calls counts the embedding and index
\* calls made.
UpsertDocs(store, idx, nid, docs, ns, failed) ==
  IF ~store.enabled \/ docs = <<>>
    THEN [index |-> idx, nextId |-> nid, staged |-> <<>>, calls |-> 0]
  ELSE LET acc == DedupStage(docs, 1, idx, ns, failed, nid, <<>>)
       IN  [index  |-> InsertVectors(idx, ns, acc),
            nextId |-> nid + Len(acc),
            staged |-> acc,
            calls  |-> 1 + Len(docs) + (IF acc = <<>> THEN 0 ELSE 1)]

\* no two documents of the batch are near-duplicates of each other
BatchClean(docs) ==
  \A i, j \in 1..Len(docs) : i # j => Sim(docs[i], docs[j]) <= DedupThreshold

----------------------------------------------------------------------------
(* PineconeRAG.retrieve *)

\* "for match in resp.matches: results.append((text, match.id, score))"
RECURSIVE MatchTuples_Reversed(_, _)
MatchTuples_Reversed(matches, i) ==
  IF i > Len(matches) THEN <<>>
  ELSE MatchTuples_Reversed(matches, i + 1)
       \o <<<<matches[i].text, matches[i].id, matches[i].score>>>>

RECURSIVE MatchTuples(_, _)
MatchTuples(matches, i) ==
  IF i > Len(matches) THEN <<>>
  ELSE <<<<matches[i].text, matches[i].id, matches[i].score>>>>
       \o MatchTuples(matches, i + 1)

\* retrieve(query, k, namespace): the list of (text, id, score)
Retrieve(store, idx, query, k, ns) ==
  IF ~store.enabled THEN <<>>
  ELSE MatchTuples(Query(idx, ns, Embed(query), k), 1)

----------------------------------------------------------------------------
(* PineconeRAG.__init__ and get_rag_store *)

None == [set |-> FALSE, enabled |-> FALSE]

\* PineconeRAG(): with no API key the object is disabled; with a key the
\* constructor calls list_indexes / create_index / Index, and what they raise
\* leaves the constructor (up = FALSE: the backend cannot be reached)
Construct(key, up) ==
  IF ~key THEN [raised |-> FALSE, obj |-> [set |-> TRUE, enabled |-> FALSE]]
  ELSE IF ~up THEN [raised |-> TRUE, obj |-> None]
  ELSE [raised |-> FALSE, obj |-> [set |-> TRUE, enabled |-> TRUE]]

\* get_rag_store() run from start to end without interference.
\* ret is "store" or "None"; raised: the call ended with an exception.
GetRagStore(g, idx, nid, key, up, failed) ==
  IF g.set
    THEN [rag |-> g, index |-> idx, nextId |-> nid, raised |-> FALSE,
          built |-> FALSE, boot |-> <<>>,
          ret |-> IF g.enabled THEN "store" ELSE "None"]
  ELSE LET c == Construct(key, up) IN
    IF c.raised
      THEN [rag |-> g, index |-> idx, nextId |-> nid, raised |-> TRUE,
            built |-> FALSE, boot |-> <<>>, ret |-> "None"]
    ELSE IF ~c.obj.enabled
      THEN [rag |-> c.obj, index |-> idx, nextId |-> nid, raised |-> FALSE,
            built |-> TRUE, boot |-> <<>>, ret |-> "None"]
    ELSE LET u == UpsertDocs(c.obj, idx, nid, ToyDocs, DefaultNamespace, failed)
         IN  [rag |-> c.obj, index |-> u.index, nextId |-> u.nextId,
              raised |-> FALSE, built |-> TRUE, boot |-> u.staged,
              ret |-> "store"]

----------------------------------------------------------------------------
(* chat_message, up to the retrieved context *)

NoContext == "No retrieved context."

RECURSIVE ContextBlocks(_, _)
ContextBlocks(retrieved, i) ==
  IF i > Len(retrieved) THEN <<>>
  ELSE <<retrieved[i][1]>> \o ContextBlocks(retrieved, i + 1)

\* rag_store = get_rag_store(); retrieved = rag_store.retrieve(message, k=3);
\* context_text = ... if context_blocks else "No retrieved context."
\* g is the outcome of get_rag_store.  An exception leaving the handler ends
\* the request in an error (status "error"); rag_store.retrieve on None
\* raises AttributeError.
ChatContext(g, message) ==
  IF g.raised \/ g.ret = "None"
    THEN [status |-> "error", context |-> <<>>, sources |-> <<>>]
  ELSE LET retrieved == Retrieve(g.rag, g.index, message, DefaultK,
                                 DefaultNamespace)
           blocks == ContextBlocks(retrieved, 1)
       IN  [status  |-> "ok",
            context |-> IF blocks # <<>> THEN blocks ELSE <<NoContext>>,
            sources |-> retrieved]

----------------------------------------------------------------------------
(* Spec: the store under whole, non-overlapping calls *)

\* direct upsert_docs calls stop once the ids handed out reach IdCap
IdCap == Len(ToyDocs) + MaxBatch

\* the texts direct callers upsert: a text, its near-duplicate, and the text
\* at exactly the threshold from it
UpsertTexts == {1, 2, 3}

Batches == UNION {[1..n -> UpsertTexts] : n \in 0..MaxBatch}

\* the dedup queries of one call that raise: none, or one of them
FailSets(n) == {{}} \cup {{i} : i \in 1..n}

QueryTexts == Texts

Ks == 1..(DefaultK + 1)

NoPrev == [same |-> FALSE, before |-> 0, staged |-> <<>>]

StoreInit ==
  /\ apiKey \in BOOLEAN
  /\ rag = None
  /\ index = [ns \in Namespaces |-> {}]
  /\ nextId = 1
  /\ clean = [ns \in Namespaces |-> TRUE]
  /\ last = [op |-> "none"]

Init ==
  /\ StoreInit
  /\ threads = <<>>
  /\ made = [stores |-> 0, bootstraps |-> 0]
  /\ peakIn = <<>>
  /\ peakOut = <<>>

\* Calls do not overlap: a call is made when no result is held (last.op is
\* "none"), runs to its end, and leaves its record in last until the caller
\* drops it (Return) or, for upsert_docs, makes the same call again.
Idle == last.op = "none"

\* the effect of get_rag_store's bootstrap on the history variable
CleanAfterInit(g) ==
  IF g.built /\ g.rag.enabled
    THEN [clean EXCEPT ![DefaultNamespace] = @ /\ BatchClean(ToyDocs)]
    ELSE clean

\* a caller runs get_rag_store()
CallGetRagStore ==
  \E up \in BOOLEAN, failed \in FailSets(Len(ToyDocs)) :
    /\ Idle
    /\ (rag.set \/ ~apiKey \/ ~up) => failed = {}
    /\ rag.set => up
    /\ \E g \in {GetRagStore(rag, index, nextId, apiKey, up, failed)} :
         /\ rag' = g.rag
         /\ index' = g.index
         /\ nextId' = g.nextId
         /\ clean' = CleanAfterInit(g)
         /\ last' = [op |-> "get_rag_store", up |-> up, failed |-> failed,
                     raised |-> g.raised, built |-> g.built, ret |-> g.ret,
                     boot |-> g.boot]
    /\ UNCHANGED <<apiKey, initVars, peakVars>>

\* upsert_docs(docs, ns) on the store object; prev is what the call keeps of
\* the call before it when that was the same call
DoUpsertDocs(docs, ns, failed, prev) ==
  /\ rag.set
  /\ failed \subseteq 1..Len(docs)
  /\ ~rag.enabled => failed = {}
  /\ nextId + Len(docs) <= IdCap + 1
  /\ \E u \in {UpsertDocs(rag, index, nextId, docs, ns, failed)} :
       /\ index' = u.index
       /\ nextId' = u.nextId
       /\ clean' = IF rag.enabled
                     THEN [clean EXCEPT ![ns] = @ /\ BatchClean(docs)]
                     ELSE clean
       /\ last' = [op |-> "upsert_docs", docs |-> docs, ns |-> ns,
                   failed |-> failed, staged |-> u.staged, calls |-> u.calls,
                   before |-> Cardinality(index[ns]), prev |-> prev]
  /\ UNCHANGED <<apiKey, rag, initVars, peakVars>>

\* a caller holding the store object runs upsert_docs(docs, ns)
CallUpsertDocs ==
  \E docs \in Batches, ns \in Namespaces, failed \in FailSets(MaxBatch) :
    /\ Idle
    /\ DoUpsertDocs(docs, ns, failed, NoPrev)

\* the caller whose upsert_docs call has just returned, with no dedup query
\* failed, makes the identical call again
CallUpsertDocsAgain ==
  /\ last.op = "upsert_docs"
  /\ last.failed = {}
  /\ DoUpsertDocs(last.docs, last.ns, {},
                  [same |-> TRUE, before |-> last.before,
                   staged |-> last.staged])

\* a caller holding the store object runs retrieve(query, k, ns)
CallRetrieve ==
  \E query \in QueryTexts, k \in Ks, ns \in Namespaces :
    /\ Idle
    /\ rag.set
    /\ last' = [op |-> "retrieve", query |-> query, k |-> k, ns |-> ns,
                result |-> Retrieve(rag, index, query, k, ns)]
    /\ UNCHANGED <<apiKey, rag, index, nextId, clean, initVars, peakVars>>

\* POST /api/chat
ChatMessage ==
  \E message \in QueryTexts, up \in BOOLEAN, failed \in FailSets(Len(ToyDocs)) :
    /\ Idle
    /\ (rag.set \/ ~apiKey \/ ~up) => failed = {}
    /\ rag.set => up
    /\ \E g \in {GetRagStore(rag, index, nextId, apiKey, up, failed)} :
       \E c \in {ChatContext(g, message)} :
         /\ rag' = g.rag
         /\ index' = g.index
         /\ nextId' = g.nextId
         /\ clean' = CleanAfterInit(g)
         /\ last' = [op |-> "chat_message", message |-> message,
                     built |-> g.built, up |-> up,
                     status |-> c.status, context |-> c.context,
                     sources |-> c.sources]
    /\ UNCHANGED <<apiKey, initVars, peakVars>>

\* the caller drops the record of its call
Return ==
  /\ ~Idle
  /\ last' = [op |-> "none"]
  /\ UNCHANGED <<apiKey, rag, index, nextId, clean, initVars, peakVars>>

Next ==
  \/ CallGetRagStore
  \/ CallUpsertDocs
  \/ CallUpsertDocsAgain
  \/ CallRetrieve
  \/ ChatMessage
  \/ Return

Spec == Init /\ [][Next]_vars

----------------------------------------------------------------------------
(* Properties of the store (Spec) *)

Enabled == rag.set /\ rag.enabled

Count(ns) == Cardinality(index[ns])

Min(a, b) == IF a <= b THEN a ELSE b

StagedIds(acc) == {acc[j].id : j \in 1..Len(acc)}

StagedPos(acc) == {acc[j].pos : j \in 1..Len(acc)}

RECURSIVE StagedTexts(_, _)
StagedTexts(acc, j) ==
  IF j > Len(acc) THEN <<>> ELSE <<acc[j].text>> \o StagedTexts(acc, j + 1)

\* some document of docs scores strictly above the threshold against text t
NearDup(t, docs) == \E d \in docs : Sim(t, d.text) > DedupThreshold

\* when last is an upsert_docs call: its namespace as it was before the call
Before == {d \in index[last.ns] : d.id \notin StagedIds(last.staged)}

\* when last is a repeated upsert_docs call: its namespace as it was before
\* the first of the two calls
BeforeFirst ==
  {d \in index[last.ns] :
     d.id \notin StagedIds(last.staged) \cup StagedIds(last.prev.staged)}

\* the batch without the documents whose dedup query failed
RECURSIVE WithoutFailed(_, _, _)
WithoutFailed(docs, failed, i) ==
  IF i > Len(docs) THEN <<>>
  ELSE (IF i \in failed THEN <<>> ELSE <<docs[i]>>)
       \o WithoutFailed(docs, failed, i + 1)

TwiceCase ==
  /\ last.op = "upsert_docs"
  /\ Enabled
  /\ last.prev.same
  /\ Len(last.docs) = 1

\* C1 as stated: after the second of two identical single-text upsert_docs
\* calls (no dedup query failing) the namespace holds exactly one document
\* more than before the first call, whatever the namespace held, and the
\* second call staged nothing.
C1_AlwaysOneMore ==
  TwiceCase =>
    /\ last.staged = <<>>
    /\ Count(last.ns) = last.prev.before + 1

\* C1 amended: the second call stages nothing; the count is one more than
\* before the first call when no document stored before the first call scored
\* above 0.99 against the text, and unchanged when one did.
C1_OneMoreIfNew ==
  TwiceCase =>
    /\ last.staged = <<>>
    /\ Count(last.ns) = last.prev.before
                          + (IF NearDup(last.docs[1], BeforeFirst) THEN 0 ELSE 1)

\* the first call inserted the text and the second call has returned
C1_Witness ==
  /\ TwiceCase
  /\ Len(last.prev.staged) = 1
  /\ Count(last.ns) = last.prev.before + 1

\* C5: two documents of one batch that are near-duplicates of each other, with
\* no stored neighbour above 0.99 before the batch and no failed dedup query,
\* are both staged and both inserted.
C5_SameBatchNearDuplicatesBothInserted ==
  (last.op = "upsert_docs" /\ Enabled) =>
    \A i, j \in (1..Len(last.docs)) \ last.failed :
      ( /\ i < j
        /\ Sim(last.docs[i], last.docs[j]) > DedupThreshold
        /\ ~NearDup(last.docs[i], Before)
        /\ ~NearDup(last.docs[j], Before) )
      => /\ {i, j} \subseteq StagedPos(last.staged)
         /\ \A m \in 1..Len(last.staged) :
              last.staged[m].pos \in {i, j} =>
                [id |-> last.staged[m].id, text |-> last.staged[m].text]
                  \in index[last.ns]

\* a batch of two distinct near-duplicate texts went into a namespace holding
\* no neighbour of either, and both are stored
C5_Witness ==
  /\ last.op = "upsert_docs" /\ Enabled
  /\ Len(last.docs) = 2 /\ last.failed = {}
  /\ last.docs[1] # last.docs[2]
  /\ Sim(last.docs[1], last.docs[2]) > DedupThreshold
  /\ Len(last.staged) = 2
  /\ Count(last.ns) = last.before + 2

\* C6: when dedup queries of a batch fail, the call still returns, no failing
\* document is staged or inserted, every document is queried once, and the
\* documents staged are those the batch without the failing documents would
\* stage from the same index.
C6_FailedQuerySkipsOnlyThatDocument ==
  (last.op = "upsert_docs" /\ Enabled /\ last.failed # {}) =>
    /\ StagedPos(last.staged) \cap last.failed = {}
    /\ Count(last.ns) = last.before + Len(last.staged)
    /\ last.calls = 1 + Len(last.docs) + (IF last.staged = <<>> THEN 0 ELSE 1)
    /\ StagedTexts(last.staged, 1) =
         StagedTexts(
           DedupStage(WithoutFailed(last.docs, last.failed, 1), 1,
                      [index EXCEPT ![last.ns] = Before], last.ns, {}, 0, <<>>),
           1)

\* the query of the first document failed and the second was inserted
C6_Witness ==
  /\ last.op = "upsert_docs" /\ Enabled
  /\ Len(last.docs) = 2 /\ last.failed = {1}
  /\ StagedPos(last.staged) = {2}
  /\ Count(last.ns) = last.before + 1

C8_RetrieveTopK ==
  (last.op = "retrieve" /\ Enabled) =>
    /\ Len(last.result) = Min(last.k, Count(last.ns))
    /\ \A i \in 1..(Len(last.result) - 1) :
         last.result[i][3] >= last.result[i + 1][3]
    /\ \A i \in 1..Len(last.result) :
         [id |-> last.result[i][2], text |-> last.result[i][1]]
           \in index[last.ns]

\* k = 3 on a namespace of at least 3 documents: 3 matches of different scores
C8_Witness ==
  /\ last.op = "retrieve" /\ Enabled
  /\ last.k = DefaultK
  /\ Count(last.ns) >= 3
  /\ Len(last.result) = 3
  /\ last.result[1][3] > last.result[3][3]

\* C10: a step changes a namespace only by an upsert into that namespace (the
\* bootstrap upserts into the default namespace); an upsert_docs into a
\* namespace stages a document whose query returned exactly when that
\* namespace alone held no document above 0.99 against it; retrieve returns
\* documents of its namespace only and changes nothing.
C10_NamespaceIsolation ==
  [][ /\ \A ns \in Namespaces :
           index'[ns] # index[ns] =>
             \/ last'.op = "upsert_docs" /\ last'.ns = ns
             \/ last'.op \in {"get_rag_store", "chat_message"}
                  /\ ns = DefaultNamespace
      /\ (last'.op = "upsert_docs" /\ Enabled) =>
           \A i \in (1..Len(last'.docs)) \ last'.failed :
             (i \in StagedPos(last'.staged))
               <=> ~NearDup(last'.docs[i], index[last'.ns])
      /\ (last'.op = "retrieve") =>
           /\ index' = index
           /\ \A i \in 1..Len(last'.result) :
                [id |-> last'.result[i][2], text |-> last'.result[i][1]]
                  \in index[last'.ns]
    ]_vars

\* a text stored in the default namespace was inserted into the other one
C10_Witness ==
  /\ last.op = "upsert_docs" /\ Enabled
  /\ last.ns # DefaultNamespace
  /\ Len(last.staged) = 1
  /\ \E d \in index[DefaultNamespace] : d.text = last.staged[1].text
  /\ Count(last.ns) = last.before + 1

\* C2 as stated: with no backend credentials a chat request gets an empty
\* retrieval result and goes on with the "No retrieved context." text; it
\* never ends in an error.
C2_ChatDegradesWhenDisabled ==
  (last.op = "chat_message" /\ ~apiKey) =>
    /\ last.status = "ok"
    /\ last.sources = <<>>
    /\ last.context = <<NoContext>>

\* C4 as stated: a construction with the backend not configured or not
\* reachable does not raise and leaves a Disabled store; a Disabled store
\* answers retrieve with the empty sequence and upsert_docs with no call and
\* no change.
C4_ConstructionNeverRaises ==
  /\ (last.op = "get_rag_store" /\ (~apiKey \/ ~last.up)) =>
       /\ ~last.raised
       /\ rag.set /\ ~rag.enabled
  /\ (rag.set /\ ~rag.enabled) =>
       /\ last.op = "retrieve" => last.result = <<>>
       /\ last.op = "upsert_docs" =>
            last.calls = 0 /\ last.staged = <<>> /\ Count(last.ns) = last.before

----------------------------------------------------------------------------
(* SpecInit: threads inside get_rag_store *)

Threads == 1..NumThreads

Frame(pc) == [pc |-> pc, obj |-> None, i |-> 0, acc |-> <<>>, ret |-> "none"]

InitInit ==
  /\ StoreInit
  /\ threads = [th \in Threads |-> Frame("start")]
  /\ made = [stores |-> 0, bootstraps |-> 0]
  /\ peakIn = <<>>
  /\ peakOut = <<>>

\* "if _rag is None:"
TestNone(th) ==
  /\ threads[th].pc = "start"
  /\ threads' = [threads EXCEPT ![th].pc =
                   IF rag.set THEN "return" ELSE "construct"]
  /\ UNCHANGED <<storeVars, made, peakVars>>

\* "PineconeRAG()", the right-hand side of the assignment
ConstructStore(th) ==
  \E up \in BOOLEAN :
    /\ threads[th].pc = "construct"
    /\ \E c \in {Construct(apiKey, up)} :
         IF c.raised
           THEN /\ threads' = [threads EXCEPT ![th].pc = "raised"]
                /\ made' = made
           ELSE /\ threads' = [threads EXCEPT ![th].pc = "assign",
                                              ![th].obj = c.obj]
                /\ made' = [made EXCEPT !.stores = @ + 1]
    /\ UNCHANGED <<storeVars, peakVars>>

\* "_rag = ..."
AssignGlobal(th) ==
  /\ threads[th].pc = "assign"
  /\ rag' = threads[th].obj
  /\ threads' = [threads EXCEPT ![th].pc = "enabled"]
  /\ UNCHANGED <<apiKey, index, nextId, clean, last, made, peakVars>>

\* "if _rag.enabled: ... _rag.upsert_docs(toy_docs)" up to embed_text(docs)
TestEnabled(th) ==
  /\ threads[th].pc = "enabled"
  /\ IF rag.enabled
       THEN /\ threads' = [threads EXCEPT ![th].pc = "query", ![th].i = 1,
                                          ![th].acc = <<>>]
            /\ made' = [made EXCEPT !.bootstraps = @ + 1]
       ELSE /\ threads' = [threads EXCEPT ![th].pc = "return"]
            /\ made' = made
  /\ UNCHANGED <<storeVars, peakVars>>

\* one turn of the loop of upsert_docs: the dedup query of document i, which
\* may raise, and the staging of the document
DedupQuery(th) ==
  \E fails \in BOOLEAN :
    /\ threads[th].pc = "query"
    /\ \E f \in {threads[th]} :
       \E acc \in {DedupStage(<<ToyDocs[f.i]>>, 1, index, DefaultNamespace,
                              IF fails THEN {1} ELSE {}, nextId, <<>>)} :
         /\ threads' = [threads EXCEPT
                          ![th].acc = f.acc \o acc,
                          ![th].i = f.i + 1,
                          ![th].pc = IF f.i = Len(ToyDocs)
                                       THEN "insert" ELSE "query"]
         /\ nextId' = nextId + Len(acc)
    /\ UNCHANGED <<apiKey, rag, index, clean, last, made, peakVars>>

\* "if vectors_to_insert: self.index.upsert(...)"
InsertStaged(th) ==
  /\ threads[th].pc = "insert"
  /\ index' = InsertVectors(index, DefaultNamespace, threads[th].acc)
  /\ threads' = [threads EXCEPT ![th].pc = "return"]
  /\ UNCHANGED <<apiKey, rag, nextId, clean, last, made, peakVars>>

\* "return _rag if _rag and _rag.enabled else None"
ReturnHandle(th) ==
  /\ threads[th].pc = "return"
  /\ threads' = [threads EXCEPT ![th].pc = "done",
                   ![th].ret = IF rag.set /\ rag.enabled
                                 THEN "store" ELSE "None"]
  /\ UNCHANGED <<storeVars, made, peakVars>>

NextInit ==
  \E th \in Threads :
    \/ TestNone(th)
    \/ ConstructStore(th)
    \/ AssignGlobal(th)
    \/ TestEnabled(th)
    \/ DedupQuery(th)
    \/ InsertStaged(th)
    \/ ReturnHandle(th)

SpecInit == InitInit /\ [][NextInit]_vars

\* C3 as stated: however the callers of get_rag_store interleave, the store
\* is constructed at most once, the bootstrap ingestion runs at most once,
\* and no toy document is stored twice.
C3_InitializedOnce ==
  /\ made.stores <= 1
  /\ made.bootstraps <= 1
  /\ \A d, e \in index[DefaultNamespace] : d.text = e.text => d.id = e.id

----------------------------------------------------------------------------
(* detect_peaks (SpecPeaks).  Python indices run from 0: sample i of an     *)
(* array is element i + 1 of the sequence that models it.                   *)

\* arr[a : b] for 0 <= a
PySlice(arr, a, b) == SubSeq(arr, a + 1, Min(b, Len(arr)))

\* np.max of a non-empty array
RECURSIVE MaxFrom(_, _)
MaxFrom(arr, j) ==
  IF j = Len(arr) THEN arr[j]
  ELSE LET m == MaxFrom(arr, j + 1) IN IF arr[j] >= m THEN arr[j] ELSE m

NpMax(arr) == MaxFrom(arr, 1)

\* "intensity[i] == np.max(local) and intensity[i] >= threshold"
IsPeak_StrictThreshold(v, local, threshold) ==
  v = NpMax(local) /\ v > threshold

IsPeak(v, local, threshold) ==
  v = NpMax(local) /\ v >= threshold

SpectrumFeature(e, v) == [peak_energy |-> e, peak_intensity |-> v]

\* "for i in range(window, n - window):" from i on
RECURSIVE PeakLoop(_, _, _, _, _, _)
PeakLoop(energy, intensity, window, threshold, i, peaks) ==
  IF i >= Len(intensity) - window THEN peaks
  ELSE LET local == PySlice(intensity, i - window, i + window + 1)
       IN  PeakLoop(energy, intensity, window, threshold, i + 1,
             IF IsPeak(intensity[i + 1], local, threshold)
               THEN Append(peaks,
                           SpectrumFeature(energy[i + 1], intensity[i + 1]))
               ELSE peaks)

detect_peaks(energy, intensity, window, threshold) ==
  IF Len(intensity) = 0 THEN <<>>
  ELSE PeakLoop(energy, intensity, window, threshold, window, <<>>)

\* ascending energies, as np.linspace gives them
EnergyAxis(n, e0) == [i \in 1..n |-> e0 + 3 * (i - 1)]

InitPeaks ==
  /\ apiKey = FALSE
  /\ rag = None
  /\ index = [ns \in Namespaces |-> {}]
  /\ nextId = 1
  /\ clean = [ns \in Namespaces |-> TRUE]
  /\ last = [op |-> "none"]
  /\ threads = <<>>
  /\ made = [stores |-> 0, bootstraps |-> 0]
  /\ \E n \in 0..MaxN, e0 \in {10, 20}, window \in 0..MaxWindow,
        threshold \in 0..(MaxVal + 1) :
       \E intensity \in [1..n -> 0..MaxVal] :
         peakIn = [energy |-> EnergyAxis(n, e0), intensity |-> intensity,
                   window |-> window, threshold |-> threshold]
  /\ peakOut = [done |-> FALSE, peaks |-> <<>>]

CallDetectPeaks ==
  /\ ~peakOut.done
  /\ peakOut' = [done |-> TRUE,
                 peaks |-> detect_peaks(peakIn.energy, peakIn.intensity,
                                        peakIn.window, peakIn.threshold)]
  /\ UNCHANGED <<storeVars, initVars, peakIn>>

NextPeaks == CallDetectPeaks

SpecPeaks == InitPeaks /\ [][NextPeaks]_vars

\* the samples (Python indices) the contract makes peaks
PeakIndices ==
  LET n == Len(peakIn.intensity)
      w == peakIn.window
      v(i) == peakIn.intensity[i + 1]
  IN  {i \in w..(n - 1 - w) :
         /\ \A j \in (i - w)..(i + w) : v(j) <= v(i)
         /\ v(i) >= peakIn.threshold}

RECURSIVE Ascending(_)
Ascending(S) ==
  IF S = {} THEN <<>>
  ELSE LET m == CHOOSE x \in S : \A y \in S : x <= y
       IN  <<m>> \o Ascending(S \ {m})

====
